---- MODULE Spec2Model ----
(***************************************************************************)
(* State-machine model of the c2pa-c foreign-function bridge:              *)
(*   src/src/error.rs    the thread-local last-error slot                  *)
(*   src/src/c_api.rs    the exported entry points and handle lifecycle    *)
(*   src/src/c_stream.rs stream handles                                    *)
(*   src/src/c_signer.rs the configured signer constructor                 *)
(*                                                                         *)
(*   src/src/signer.rs   the configurable signer and its lock              *)
(*                                                                         *)
(* The specifications share the variables:                                 *)
(*   Spec     every exported entry point, acting on the heap of boxed      *)
(*            objects and on the calling thread's error slot;              *)
(*   SpecErr  the error channel alone (set_last / last_message /           *)
(*            take_last, c2pa_error, c2pa_version and one fallible entry   *)
(*            point) on two threads, with the full call history kept;      *)
(*   SpecBridge  the signer and stream trait methods as the engine calls   *)
(*            them;                                                        *)
(*   SpecLock configure and the accessors of one signer on three threads,  *)
(*            one lock operation or field assignment per step;             *)
(*   SpecManifest  the manifest bytes of successful c2pa_builder_sign      *)
(*            calls and c2pa_manifest_free.                                *)
(***************************************************************************)
EXTENDS Integers, Sequences, FiniteSets, TLC

VARIABLES
    heap,   \* [Handles -> {"unalloc","live","freed"}]: the boxed objects
    held,   \* handles the caller obtained and has not passed to a free operation
    slot,   \* [Threads -> Error]: LAST_ERROR, one cell per thread
    last,   \* record of the most recent entry-point call (Spec)
    ub,     \* "none", or the undefined behaviour the last call ran into
    hist,   \* [Threads -> Seq(event)]: every call made on a thread (SpecErr)
    calls,  \* number of calls made so far
    settings,   \* the SignerInternalConfig of the C2paSigner under study (SpecBridge)
    cstream,    \* the CStream under study (SpecBridge)
    bridge,     \* record of the most recent signer or stream operation (SpecBridge)
    manifests,  \* the manifest buffers c2pa_builder_sign produced (SpecManifest)
    lock,       \* the RwLock around the settings (SpecLock)
    pc          \* [SignerThreads -> position in configure or an accessor] (SpecLock)

vars ==
    <<heap, held, slot, last, ub, hist, calls, settings, cstream, bridge, manifests,
      lock, pc>>

----------------------------------------------------------------------------
(* Bounds of the model *)

MaxBuilders == 1
MaxReaders == 1
MaxSigners == 1
MaxStreams == 2
MaxErrCalls == 4
MaxCalls == 5
MaxBridgeCalls == 3
MaxLockCalls == 3
MaxManifests == 2
MaxManifestCalls == 3

Threads == {"t1", "t2"}

\* The thread that works with the handles; the caller serialises the operations
\* on a handle.
Callers == {"t1"}

----------------------------------------------------------------------------
(* Values crossing the boundary *)

\* A C string pointer is NULL or points at text.  Text is a sequence of tokens;
\* the token "NUL" stands for a zero byte inside the text.
NULL == "NULL"

NoText == <<>>

HasNul(s) == \E i \in 1..Len(s) : s[i] = "NUL"

\* Return values, in one shape so that any two can be compared.
RNull == [k |-> "null", i |-> 0, s |-> NoText]
RInt(n) == [k |-> "int", i |-> n, s |-> NoText]
RStr(s) == [k |-> "str", i |-> 0, s |-> s]
RHandle(h) == [k |-> "handle", i |-> h[2], s |-> <<h[1]>>]
RVoid == [k |-> "void", i |-> 0, s |-> NoText]
RCrash == [k |-> "crash", i |-> 0, s |-> NoText]

\* to_c_string: CString::new fails on an interior zero byte, and then the
\* result is a null pointer.
to_c_string(s) == IF HasNul(s) THEN RNull ELSE RStr(s)

----------------------------------------------------------------------------
(* error.rs: the Error type and the thread-local slot *)

NoError == [kind |-> "None", arg |-> ""]
NullParameter(p) == [kind |-> "NullParameter", arg |-> p]
Sdk(e) == [kind |-> "Sdk", arg |-> e]
Json(e) == [kind |-> "Json", arg |-> e]

\* Errors of the engine (c2pa::Error), by name; the text of the second one
\* carries a zero byte taken from asset data.
EngineErrs == {"JumbfNotFound", "BadParam"}

EngineMsg(e) == IF e = "BadParam" THEN <<"bad parameter: ", "NUL">> ELSE <<e>>

\* Display, as derived by thiserror.
Display(e) ==
    IF e.kind = "NullParameter" THEN <<"Unexpected NULL parameter ", e.arg>>
    ELSE IF e.kind = "Sdk" THEN EngineMsg(e.arg)
    ELSE IF e.kind = "Json" THEN <<"json: ", e.arg>>
    ELSE NoText

\* Error::from_c2pa_error wraps an engine error (a C2paError record).
from_c2pa_error(e) == Sdk(e.arg)

LAST_ERROR == [t \in Threads |-> NoError]

\* A set_last that does not overwrite a pending error (faulty variant).
set_last_keep_first(sl, t, e) ==
    IF sl[t] = NoError THEN [sl EXCEPT ![t] = e] ELSE sl

\* A set_last on one process-wide cell (faulty variant).
set_last_global(sl, t, e) == [u \in Threads |-> e]

set_last(sl, t, e) == [sl EXCEPT ![t] = e]

\* A last_message that takes the error out of the slot (faulty variant).
last_message_takes(sl, t) ==
    [ret |-> IF sl[t] = NoError THEN RNull ELSE RStr(Display(sl[t])),
     slot |-> [sl EXCEPT ![t] = NoError]]

\* Option<String>: RNull is None, RStr(text) is Some(text).
last_message(sl, t) ==
    [ret |-> IF sl[t] = NoError THEN RNull ELSE RStr(Display(sl[t])),
     slot |-> sl]

take_last(sl, t) == [err |-> sl[t], slot |-> [sl EXCEPT ![t] = NoError]]

----------------------------------------------------------------------------
(* Handles and the heap of boxed objects *)

Kinds == {"builder", "reader", "signer", "stream"}

KindMax(k) ==
    IF k = "builder" THEN MaxBuilders
    ELSE IF k = "reader" THEN MaxReaders
    ELSE IF k = "signer" THEN MaxSigners
    ELSE MaxStreams

Handles == UNION {{<<k, n>> : n \in 1..KindMax(k)} : k \in Kinds}

NULLH == <<"null", 0>>

HandlesOf(k) == {h \in Handles : h[1] = k}

CanAlloc(hp, k) == \E h \in HandlesOf(k) : hp[h] = "unalloc"

\* The address Box::new returns: addresses are never handed out twice.
Fresh(hp, k) ==
    CHOOSE h \in HandlesOf(k) :
        /\ hp[h] = "unalloc"
        /\ \A g \in HandlesOf(k) : g[2] < h[2] => hp[g] # "unalloc"

\* Box::into_raw(Box::new(x))
BoxNew(hp, h) == [hp EXCEPT ![h] = "live"]

\* A Box that goes out of scope without into_raw is dropped.
BoxDrop(hp, h) == [hp EXCEPT ![h] = "freed"]

\* Box::from_raw(p) or &mut *p: what using pointer p amounts to.
Deref(hp, p) ==
    IF p = NULLH THEN "null_deref"
    ELSE IF hp[p] # "live" THEN "use_after_free"
    ELSE "none"

\* The context token of the CStream at address s.  The CStream holds it in a
\* Box field: the token is taken over where the CStream is constructed and
\* dropped where the CStream is dropped, not before and not again.
ContextOf(hp, s) ==
    IF hp[s] = "unalloc" THEN "foreign"
    ELSE IF hp[s] = "live" THEN "owned"
    ELSE "released"

----------------------------------------------------------------------------
(* Results of the engine, and what an entry point did *)

C2paError(e) == [kind |-> "c2pa", arg |-> e]

Ok(text, len) == [ok |-> TRUE, text |-> text, len |-> len, err |-> NoError]
Err(e) == [ok |-> FALSE, text |-> NoText, len |-> <<0, 0, 0, 0>>, err |-> e]

Jsons == {<<"{\"manifests\":{}}">>}

\* A usize is four 16-bit limbs, most significant first.
USize(l3, l2, l1, l0) == <<l3, l2, l1, l0>>

Zero == USize(0, 0, 0, 0)

\* Byte counts the engine reports.
Lens == {Zero, USize(0, 0, 0, 7), USize(0, 0, 32768, 0), USize(0, 0, 65535, 65535),
         USize(0, 1, 0, 5)}

\* c2pa::Result<T>
EngineResults(vals) == vals \cup {Err(C2paError(e)) : e \in EngineErrs}

\* crate::Result<String> of json_api
ApiResults ==
    {Ok(j, Zero) : j \in Jsons} \cup {Err(Sdk("JumbfNotFound")), Err(Json("EOF while parsing"))}

LenResults == EngineResults({Ok(NoText, n) : n \in Lens})
UnitResults == EngineResults({Ok(NoText, Zero)})

NotCalled == [fn |-> "none", arg |-> "-"]
Called(fn, arg) == [fn |-> fn, arg |-> arg]

Out(ret, sl, hp, called) ==
    [ret |-> ret, slot |-> sl, heap |-> hp, called |-> called, ub |-> "none"]

Undefined(kind, sl, hp) ==
    [ret |-> RCrash, slot |-> sl, heap |-> hp, called |-> NotCalled, ub |-> kind]

\* `n as c_int` from usize: the low 32 bits (limbs 3 and 4), read as signed.
AsCInt(n) ==
    IF n[3] >= 32768
    THEN (n[3] - 65536) * 65536 + n[4]
    ELSE n[3] * 65536 + n[4]

\* What a *const c_char argument can be: null, valid UTF-8, or bytes that are
\* not UTF-8.
StrPtrs == {NULL, "text", "bytes\\xFF"}

\* CStr::from_ptr(p).to_string_lossy().into_owned(): invalid sequences become
\* U+FFFD, valid text is kept.
to_string_lossy(p) == IF p = "bytes\\xFF" THEN "bytes\\uFFFD" ELSE p

\* from_cstr_option!: a null pointer is None
from_cstr_option(p) == IF p = NULL THEN "None" ELSE to_string_lossy(p)

----------------------------------------------------------------------------
(* c_api.rs: entry points without handles.  Each operator maps the caller's
   arguments, the slot, the heap and the engine's answer to the outcome of the
   whole call. *)

\* format!("{}/{} {}/{}", CARGO_PKG_NAME, CARGO_PKG_VERSION, c2pa::NAME, c2pa::VERSION)
VersionText == <<"CARGO_PKG_NAME", "/", "CARGO_PKG_VERSION", " ", "c2pa::NAME", "/", "c2pa::VERSION">>

c2pa_version(sl, hp) == Out(to_c_string(VersionText), sl, hp, NotCalled)

unwrap_or_default(opt) == IF opt = RNull THEN NoText ELSE opt.s

c2pa_error(sl, hp, t) ==
    LET m == last_message(sl, t)
    IN Out(to_c_string(unwrap_or_default(m.ret)), m.slot, hp, NotCalled)

c2pa_read_file(sl, hp, t, path, data_dir, res) ==
    IF path = NULL
    THEN Out(RNull, set_last(sl, t, NullParameter("path")), hp, NotCalled)
    ELSE LET dir == from_cstr_option(data_dir)
             did == Called("read_file", dir)
         IN IF res.ok
            THEN Out(to_c_string(res.text), sl, hp, did)
            ELSE Out(RNull, set_last(sl, t, res.err), hp, did)

\* c2pa_read_ingredient_file with data_dir taken as optional (faulty variant).
c2pa_read_ingredient_file_optional_dir(sl, hp, t, path, data_dir, res) ==
    IF path = NULL
    THEN Out(RNull, set_last(sl, t, NullParameter("path")), hp, NotCalled)
    ELSE LET did == Called("read_ingredient_file", from_cstr_option(data_dir))
         IN IF res.ok
            THEN Out(to_c_string(res.text), sl, hp, did)
            ELSE Out(RNull, set_last(sl, t, res.err), hp, did)

c2pa_read_ingredient_file(sl, hp, t, path, data_dir, res) ==
    IF path = NULL
    THEN Out(RNull, set_last(sl, t, NullParameter("path")), hp, NotCalled)
    ELSE IF data_dir = NULL
    THEN Out(RNull, set_last(sl, t, NullParameter("data_dir")), hp, NotCalled)
    ELSE LET did == Called("read_ingredient_file", to_string_lossy(data_dir))
         IN IF res.ok
            THEN Out(to_c_string(res.text), sl, hp, did)
            ELSE Out(RNull, set_last(sl, t, res.err), hp, did)

\* The required strings of c2pa_sign_file in the order the code converts them.
SignFileParams ==
    <<"source_path", "dest_path", "manifest", "signer_info.alg",
      "signer_info.sign_cert", "signer_info.private_key">>

\* The first null pointer of `ptrs` (a sequence of pointers), by position; 0 if
\* none is null.
FirstNullAt(ptrs, null) ==
    IF \E i \in 1..Len(ptrs) : ptrs[i] = null
    THEN CHOOSE i \in 1..Len(ptrs) :
            ptrs[i] = null /\ \A j \in 1..(i - 1) : ptrs[j] # null
    ELSE 0

\* req: the six required strings, in SignFileParams order.
c2pa_sign_file(sl, hp, t, req, ta_url, data_dir, res) ==
    LET n == FirstNullAt(req, NULL)
    IN IF n # 0
       THEN Out(RNull, set_last(sl, t, NullParameter(SignFileParams[n])), hp,
                NotCalled)
       ELSE LET did == Called("sign_file", from_cstr_option(data_dir))
            IN IF res.ok
               THEN Out(to_c_string(NoText), sl, hp, did)
               ELSE Out(RNull, set_last(sl, t, res.err), hp, did)

----------------------------------------------------------------------------
(* c_api.rs, c_stream.rs: free operations *)

\* `if !p.is_null() { drop(Box::from_raw(p)) }`
FreeBox(sl, hp, p) ==
    IF p = NULLH THEN Out(RVoid, sl, hp, NotCalled)
    ELSE IF hp[p] # "live" THEN Undefined("double_free", sl, hp)
    ELSE Out(RVoid, sl, BoxDrop(hp, p), NotCalled)

c2pa_reader_free(sl, hp, reader_ptr) == FreeBox(sl, hp, reader_ptr)

c2pa_builder_free(sl, hp, builder_ptr) == FreeBox(sl, hp, builder_ptr)

c2pa_signer_free(sl, hp, signer_ptr) == FreeBox(sl, hp, signer_ptr)

c2pa_release_stream(sl, hp, stream) == FreeBox(sl, hp, stream)

----------------------------------------------------------------------------
(* c_api.rs: readers *)

\* c2pa_reader_from_stream that reclaims the stream with Box::from_raw and lets
\* it drop when the engine call fails (faulty variant).
c2pa_reader_from_stream_takes_stream(sl, hp, t, format, stream, res) ==
    IF format = NULL
    THEN Out(RNull, set_last(sl, t, NullParameter("format")), hp, NotCalled)
    ELSE IF Deref(hp, stream) # "none"
    THEN Undefined(Deref(hp, stream), sl, hp)
    ELSE LET did == Called("Reader::from_stream", "-")
         IN IF res.ok
            THEN LET r == Fresh(hp, "reader")
                 IN Out(RHandle(r), sl, BoxNew(hp, r), did)
            ELSE Out(RNull, set_last(sl, t, from_c2pa_error(res.err)),
                     BoxDrop(hp, stream), did)

c2pa_reader_from_stream(sl, hp, t, format, stream, res) ==
    IF format = NULL
    THEN Out(RNull, set_last(sl, t, NullParameter("format")), hp, NotCalled)
    ELSE IF Deref(hp, stream) # "none"
    THEN Undefined(Deref(hp, stream), sl, hp)
    ELSE LET did == Called("Reader::from_stream", "-")
         IN IF res.ok
            THEN LET r == Fresh(hp, "reader")
                 IN Out(RHandle(r), sl, BoxNew(hp, r), did)
            ELSE Out(RNull, set_last(sl, t, from_c2pa_error(res.err)), hp, did)

\* reader.json() cannot fail; the reader is put back before the text is
\* converted.
c2pa_reader_json(sl, hp, reader_ptr, json) ==
    IF Deref(hp, reader_ptr) # "none"
    THEN Undefined(Deref(hp, reader_ptr), sl, hp)
    ELSE Out(to_c_string(json), sl, hp, Called("Reader::json", "-"))

\* The reader Box is reclaimed first; the null check of uri returns with the
\* Box still in scope, which drops the reader.  After the engine call the Box
\* is released again with into_raw, on success and on failure.
c2pa_reader_resource_to_stream(sl, hp, t, reader_ptr, uri, stream, res) ==
    IF Deref(hp, reader_ptr) # "none"
    THEN Undefined(Deref(hp, reader_ptr), sl, hp)
    ELSE IF uri = NULL
    THEN Out(RInt(-1), set_last(sl, t, NullParameter("uri")),
             BoxDrop(hp, reader_ptr), NotCalled)
    ELSE IF Deref(hp, stream) # "none"
    THEN Undefined(Deref(hp, stream), sl, hp)
    ELSE LET did == Called("Reader::resource_to_stream", "-")
         IN IF res.ok
            THEN Out(RInt(AsCInt(res.len)), sl, hp, did)
            ELSE Out(RInt(-1), set_last(sl, t, from_c2pa_error(res.err)), hp, did)

----------------------------------------------------------------------------
(* c_api.rs: builders *)

\* c2pa_builder_from_json whose Err arm does not record the error (faulty
\* variant).
c2pa_builder_from_json_silent(sl, hp, t, manifest_json, res) ==
    IF manifest_json = NULL
    THEN Out(RNull, set_last(sl, t, NullParameter("manifest_json")), hp, NotCalled)
    ELSE LET did == Called("Builder::from_json", "-")
         IN IF res.ok
            THEN LET b == Fresh(hp, "builder")
                 IN Out(RHandle(b), sl, BoxNew(hp, b), did)
            ELSE Out(RNull, sl, hp, did)

\* c2pa_builder_from_json whose Ok arm empties the slot (faulty variant).
c2pa_builder_from_json_clears(sl, hp, t, manifest_json, res) ==
    IF manifest_json = NULL
    THEN Out(RNull, set_last(sl, t, NullParameter("manifest_json")), hp, NotCalled)
    ELSE LET did == Called("Builder::from_json", "-")
         IN IF res.ok
            THEN LET b == Fresh(hp, "builder")
                 IN Out(RHandle(b), take_last(sl, t).slot, BoxNew(hp, b), did)
            ELSE Out(RNull, set_last(sl, t, from_c2pa_error(res.err)), hp, did)

c2pa_builder_from_json(sl, hp, t, manifest_json, res) ==
    IF manifest_json = NULL
    THEN Out(RNull, set_last(sl, t, NullParameter("manifest_json")), hp, NotCalled)
    ELSE LET did == Called("Builder::from_json", "-")
         IN IF res.ok
            THEN LET b == Fresh(hp, "builder")
                 IN Out(RHandle(b), sl, BoxNew(hp, b), did)
            ELSE Out(RNull, set_last(sl, t, from_c2pa_error(res.err)), hp, did)

c2pa_builder_from_archive(sl, hp, t, stream, res) ==
    IF Deref(hp, stream) # "none"
    THEN Undefined(Deref(hp, stream), sl, hp)
    ELSE LET did == Called("Builder::from_archive", "-")
         IN IF res.ok
            THEN LET b == Fresh(hp, "builder")
                 IN Out(RHandle(b), sl, BoxNew(hp, b), did)
            ELSE Out(RNull, set_last(sl, t, from_c2pa_error(res.err)), hp, did)

\* The builder Box is reclaimed first and released with into_raw only in the
\* Ok arm: the null check's return and the Err arm leave it in scope, so it is
\* dropped there.
c2pa_builder_add_resource(sl, hp, t, builder_ptr, uri, stream, res) ==
    IF Deref(hp, builder_ptr) # "none"
    THEN Undefined(Deref(hp, builder_ptr), sl, hp)
    ELSE IF uri = NULL
    THEN Out(RInt(-1), set_last(sl, t, NullParameter("uri")),
             BoxDrop(hp, builder_ptr), NotCalled)
    ELSE IF Deref(hp, stream) # "none"
    THEN Undefined(Deref(hp, stream), sl, hp)
    ELSE LET did == Called("Builder::add_resource", "-")
         IN IF res.ok
            THEN Out(RInt(0), sl, hp, did)
            ELSE Out(RInt(-1), set_last(sl, t, from_c2pa_error(res.err)),
                     BoxDrop(hp, builder_ptr), did)

c2pa_builder_add_ingredient(sl, hp, t, builder_ptr, ingredient_json, format, source, res) ==
    IF Deref(hp, builder_ptr) # "none"
    THEN Undefined(Deref(hp, builder_ptr), sl, hp)
    ELSE IF ingredient_json = NULL
    THEN Out(RInt(-1), set_last(sl, t, NullParameter("ingredient_json")),
             BoxDrop(hp, builder_ptr), NotCalled)
    ELSE IF format = NULL
    THEN Out(RInt(-1), set_last(sl, t, NullParameter("format")),
             BoxDrop(hp, builder_ptr), NotCalled)
    ELSE IF Deref(hp, source) # "none"
    THEN Undefined(Deref(hp, source), sl, hp)
    ELSE LET did == Called("Builder::add_ingredient", "-")
         IN IF res.ok
            THEN Out(RInt(0), sl, hp, did)
            ELSE Out(RInt(-1), set_last(sl, t, from_c2pa_error(res.err)),
                     BoxDrop(hp, builder_ptr), did)

c2pa_builder_to_archive(sl, hp, t, builder_ptr, stream, res) ==
    IF Deref(hp, builder_ptr) # "none"
    THEN Undefined(Deref(hp, builder_ptr), sl, hp)
    ELSE IF Deref(hp, stream) # "none"
    THEN Undefined(Deref(hp, stream), sl, hp)
    ELSE LET did == Called("Builder::to_archive", "-")
         IN IF res.ok
            THEN Out(RInt(0), sl, hp, did)
            ELSE Out(RInt(-1), set_last(sl, t, from_c2pa_error(res.err)),
                     BoxDrop(hp, builder_ptr), did)

\* Builder and signer are both released with into_raw after the engine call,
\* before the result is matched; the null check of format returns earlier, with
\* the builder Box in scope and the signer not yet reclaimed.
c2pa_builder_sign(sl, hp, t, builder_ptr, format, source, dest, signer, res) ==
    IF Deref(hp, builder_ptr) # "none"
    THEN Undefined(Deref(hp, builder_ptr), sl, hp)
    ELSE IF format = NULL
    THEN Out(RInt(-1), set_last(sl, t, NullParameter("format")),
             BoxDrop(hp, builder_ptr), NotCalled)
    ELSE IF Deref(hp, signer) # "none"
    THEN Undefined(Deref(hp, signer), sl, hp)
    ELSE IF Deref(hp, source) # "none"
    THEN Undefined(Deref(hp, source), sl, hp)
    ELSE IF Deref(hp, dest) # "none"
    THEN Undefined(Deref(hp, dest), sl, hp)
    ELSE LET did == Called("Builder::sign", "-")
         IN IF res.ok
            THEN Out(RInt(AsCInt(res.len)), sl, hp, did)
            ELSE Out(RInt(-1), set_last(sl, t, from_c2pa_error(res.err)), hp, did)

----------------------------------------------------------------------------
(* c_api.rs, c_signer.rs, signer.rs, c_stream.rs: signers and streams *)

\* CallbackSigner::new cannot fail.
c2pa_signer_create(sl, hp, t, certs, tsa_url) ==
    IF certs = NULL
    THEN Out(RNull, set_last(sl, t, NullParameter("certs")), hp, NotCalled)
    ELSE LET s == Fresh(hp, "signer")
         IN Out(RHandle(s), sl, BoxNew(hp, s),
                Called("CallbackSigner::new", from_cstr_option(tsa_url)))

\* Algorithm names SigningAlg::from_str accepts.
AlgNames == {"es256", "es384", "es512", "ps256", "ps384", "ps512", "ed25519"}

AlgPtrs == {NULL, "Es256", "md5"}

to_lowercase(s) == IF s = "Es256" THEN "es256" ELSE s

PemText == "-----BEGIN CERTIFICATE-----MIIB-----END CERTIFICATE-----"
\* Mismatched tags: pem::parse_many reports an error.
PemBroken == "-----BEGIN CERTIFICATE-----MIIB-----END PRIVATE KEY-----"

\* A certificate chain of length zero: a pointer at the terminating zero byte.
NoCerts == ""

CertPtrs == {NULL, NoCerts, PemText, PemBroken}

\* pem::parse_many: does the text parse.  A text without any PEM block parses,
\* to an empty list.
PemParses(certs) == certs \in {PemText, NoCerts}

\* C2paSigner::configure: the algorithm name is parsed, then the PEM text.
configure(alg, certs) ==
    IF alg \notin AlgNames THEN Err(C2paError("BadParam"))
    ELSE IF ~PemParses(certs) THEN Err(C2paError("OtherError"))
    ELSE Ok(NoText, Zero)

\* c2pa_create_signer that boxes the signer before configuring it and returns
\* null on Err without dropping the box (faulty variant).
c2pa_create_signer_boxes_first(sl, hp, t, alg, certs, time_authority_url) ==
    IF alg = NULL
    THEN Out(RNull, set_last(sl, t, NullParameter("config.alg")), hp, NotCalled)
    ELSE IF certs = NULL
    THEN Out(RNull, set_last(sl, t, NullParameter("config.certs")), hp, NotCalled)
    ELSE LET res == configure(to_lowercase(to_string_lossy(alg)), to_string_lossy(certs))
             did == Called("C2paSigner::configure", from_cstr_option(time_authority_url))
             s == Fresh(hp, "signer")
         IN IF res.ok
            THEN Out(RHandle(s), sl, BoxNew(hp, s), did)
            ELSE Out(RNull, set_last(sl, t, from_c2pa_error(res.err)), BoxNew(hp, s), did)

\* The signer is a local value until configure has succeeded; on Err it is
\* dropped without ever being boxed.
c2pa_create_signer(sl, hp, t, alg, certs, time_authority_url) ==
    IF alg = NULL
    THEN Out(RNull, set_last(sl, t, NullParameter("config.alg")), hp, NotCalled)
    ELSE IF certs = NULL
    THEN Out(RNull, set_last(sl, t, NullParameter("config.certs")), hp, NotCalled)
    ELSE LET res == configure(to_lowercase(to_string_lossy(alg)), to_string_lossy(certs))
             did == Called("C2paSigner::configure", from_cstr_option(time_authority_url))
         IN IF res.ok
            THEN LET s == Fresh(hp, "signer")
                 IN Out(RHandle(s), sl, BoxNew(hp, s), did)
            ELSE Out(RNull, set_last(sl, t, from_c2pa_error(res.err)), hp, did)

c2pa_create_stream(sl, hp) ==
    LET s == Fresh(hp, "stream")
    IN Out(RHandle(s), sl, BoxNew(hp, s), NotCalled)

----------------------------------------------------------------------------
(* signer.rs, c_signer.rs, c_api.rs: the signer bridge.  Sizes are byte
   counts; a signature is given by its length. *)

\* c2pa::Result<Vec<u8>>
SigOk(n) == [ok |-> TRUE, len |-> n, err |-> "none", msg |-> "none"]
SigErr(e, m) == [ok |-> FALSE, len |-> 0, err |-> e, msg |-> m]

\* SignerInternalConfig as C2paSigner::new builds it.
DefaultReserveSize == 1024

NewSettings ==
    [alg |-> "ps256", certs |-> <<>>, reserve_size |-> DefaultReserveSize,
     time_authority_url |-> "None", ocsp_val |-> "None"]

\* into_contents of the PEM blocks of a text: the model's texts hold one block
\* or none.
PemContents(certs) == IF certs = PemText THEN <<"MIIB">> ELSE <<>>

ReserveMargin == 20000

\* A configure that keeps the stored timestamp-authority URL when the
\* configuration has none (faulty variant).
configure_settings_keeps_url(st, config) ==
    IF config.alg \notin AlgNames THEN st
    ELSE IF ~PemParses(config.certs) THEN [st EXCEPT !.alg = config.alg]
    ELSE [alg |-> config.alg,
          certs |-> PemContents(config.certs),
          reserve_size |-> Len(config.certs) + ReserveMargin,
          time_authority_url |-> IF config.time_authority_url = "None"
                                 THEN st.time_authority_url
                                 ELSE config.time_authority_url,
          ocsp_val |-> "None"]

\* C2paSigner::configure on settings st.  The fields are assigned one at a
\* time under the write lock, and `?` returns at the first conversion that
\* fails: the algorithm is already stored when the PEM text is parsed.
configure_settings(st, config) ==
    IF config.alg \notin AlgNames THEN st
    ELSE IF ~PemParses(config.certs) THEN [st EXCEPT !.alg = config.alg]
    ELSE [alg |-> config.alg,
          certs |-> PemContents(config.certs),
          reserve_size |-> Len(config.certs) + ReserveMargin,
          time_authority_url |-> config.time_authority_url,
          ocsp_val |-> "None"]

\* impl c2pa::Signer for C2paSigner: the accessors read the settings.
reserve_size(st) == st.reserve_size

\* CSigner::sign offers the callback a buffer of this many bytes.
sig_max_size == 100000

Min(a, b) == IF a < b THEN a ELSE b

\* One invocation of the foreign signing callback: the data length and the
\* output capacity it was given.
SignCall(len, cap) == [len |-> len, cap |-> cap]

\* CSigner::sign: data of length len, result the callback's return value.
\* Vec::truncate to a length beyond the vector's leaves it as it is.
CSigner_sign(len, result) ==
    [cb |-> <<SignCall(len, sig_max_size)>>,
     res |-> IF result < 0 THEN SigErr("CoseSignature", "none")
             ELSE SigOk(Min(result, sig_max_size)),
     ub |-> "none"]

\* C2paSigner::sign: what the engine gets from a signer made by
\* c2pa_create_signer.  An error of the callback is rewrapped as BadParam
\* carrying the text of the original.
C2paSigner_sign(len, result) ==
    LET r == CSigner_sign(len, result)
    IN [r EXCEPT !.res = IF r.res.ok THEN r.res
                         ELSE SigErr("BadParam", r.res.err)]

\* The closure offering the callback the fixed capacity of CSigner::sign
\* (faulty variant).
c_callback_fixed_capacity(len, signed_size) ==
    [cb |-> <<SignCall(len, sig_max_size)>>,
     res |-> IF signed_size < 0 THEN SigErr("CoseSignature", "none")
             ELSE SigOk(signed_size),
     ub |-> IF signed_size > sig_max_size THEN "set_len_beyond_capacity"
            ELSE "none"]

\* The closure c2pa_signer_create hands to CallbackSigner::new: what the engine
\* gets from a signer made by c2pa_signer_create.  Vec::set_len beyond the
\* capacity is undefined behaviour.
c_callback(len, signed_size) ==
    LET signed_len_max == len * 2
    IN [cb |-> <<SignCall(len, signed_len_max)>>,
        res |-> IF signed_size < 0 THEN SigErr("CoseSignature", "none")
                ELSE SigOk(signed_size),
        ub |-> IF signed_size > signed_len_max THEN "set_len_beyond_capacity"
               ELSE "none"]

----------------------------------------------------------------------------
(* c_api.rs: the manifest bytes c2pa_builder_sign hands out *)

\* Addresses of manifest buffers; 0 is the null pointer.
ManifestIds == 1..MaxManifests

\* A Vec<u8> the engine returned: its length, its spare capacity and where
\* its first zero byte is ("none", "inside" before the final byte, "last" the
\* final byte).
Data(len, spare, nul) == [len |-> len, spare |-> spare, nul |-> nul]

NoData == Data(Zero, 0, "none")

\* The record of a call about manifest bytes: the buffer it was about, the
\* c2pa_data_ptr argument ("null" or "out"), the Vec, the count returned, the
\* pointer stored through c2pa_data_ptr.
ManifestOp(name, m, ptr, data, ret, out, u) ==
    [name |-> name, m |-> m, ptr |-> ptr, data |-> data, ret |-> ret, out |-> out,
     ub |-> u]

\* buf: every buffer is "unalloc", "caller" (forgotten by the bridge, its
\* address given to the caller) or "freed".
NewManifests ==
    [buf |-> [m \in ManifestIds |-> [state |-> "unalloc", data |-> NoData]],
     op |-> ManifestOp("init", 0, "null", NoData, 0, 0, "none")]

\* The Ok arm of the match in c2pa_builder_sign: c2pa_data is the Vec at
\* address m.  With a non-null c2pa_data_ptr its address is stored and the
\* Vec forgotten; otherwise the Vec is dropped at the end of the arm.
c2pa_builder_sign_ok(bufs, m, c2pa_data, c2pa_data_ptr) ==
    [buf |-> [bufs EXCEPT ![m] = [state |-> IF c2pa_data_ptr = "null" THEN "freed"
                                            ELSE "caller",
                                  data |-> c2pa_data]],
     ret |-> AsCInt(c2pa_data.len),
     out |-> IF c2pa_data_ptr = "null" THEN 0 ELSE m,
     ub |-> "none"]

\* c2pa_manifest_free: drop(CString::from_raw(p)).  from_raw measures the
\* buffer up to its first zero byte and releases that many bytes plus one.
\* Without a zero byte in the buffer the scan leaves it; a measured size other
\* than the Vec's capacity is a release with a layout the buffer was not
\* allocated with.  Both are undefined behaviour.
c2pa_manifest_free(bufs, manifest_data_ptr) ==
    IF manifest_data_ptr = 0 THEN [buf |-> bufs, ub |-> "none"]
    ELSE IF bufs[manifest_data_ptr].state # "caller"
    THEN [buf |-> bufs, ub |-> "double_free"]
    ELSE LET d == bufs[manifest_data_ptr].data
             freed == [bufs EXCEPT ![manifest_data_ptr].state = "freed"]
         IN IF d.nul = "none" THEN [buf |-> bufs, ub |-> "read_past_end"]
            ELSE IF d.nul = "inside" \/ d.spare # 0
            THEN [buf |-> bufs, ub |-> "dealloc_wrong_layout"]
            ELSE [buf |-> freed, ub |-> "none"]

\* Threads that call configure and the accessors of one C2paSigner.
SignerThreads == {"s1", "s2", "s3"}

\* std::sync::RwLock: the thread holding the write guard, the threads holding
\* read guards, and the poison flag a writer's panic sets.
NewLock == [writer |-> "none", readers |-> {}, poisoned |-> FALSE]

\* A read that does not wait for the writer (faulty variant).
CanRead_unguarded(lk) == TRUE

\* RwLock::read returns when no thread holds the write guard.
CanRead(lk) == lk.writer = "none"

\* RwLock::write returns when no thread holds a guard.
CanWrite(lk) == lk.writer = "none" /\ lk.readers = {}

\* A thread's position: the call it is in and where, the configuration or
\* field the call is about, the value an accessor read and whether some
\* configure was between its first and last assignment at that moment,
\* whether the call found the lock poisoned, and what the thread's last call
\* returned.
At(op, at, arg, val, mid, ret) ==
    [op |-> op, at |-> at, arg |-> arg, val |-> val, mid |-> mid, poisoned |-> FALSE,
     ret |-> ret]

\* Between calls; op and ret tell the call that has returned.
Idle(op, ret) == At(op, "idle", "-", "-", FALSE, ret)

\* The fields the accessors of impl c2pa::Signer return.
Accessors == {"alg", "certs", "reserve_size", "time_authority_url", "ocsp_val"}

\* Positions of configure at which some fields are assigned and others not.
MidUpdate == {"certs", "reserve_size", "time_authority_url", "ocsp_val"}

\* Positions of configure at which it holds the write guard.
Writing == {"alg"} \cup MidUpdate \cup {"return"}

----------------------------------------------------------------------------
(* c_stream.rs: the stream bridge *)

\* The CStream under study: its context and the four callbacks.
NewCStream ==
    [context |-> "ctx", reader |-> "read_cb", seeker |-> "seek_cb",
     writer |-> "write_cb", flusher |-> "flush_cb"]

\* std::io::Result<usize>; the error is std::io::Error::last_os_error().
IoOk(n) == [ok |-> TRUE, n |-> n, err |-> "none"]
IoErr == [ok |-> FALSE, n |-> 0, err |-> "last_os_error"]

\* One invocation of a stream callback.
StreamCall(fn, context, ptr, len) == [fn |-> fn, context |-> context, ptr |-> ptr, len |-> len]

\* A read that limits the count to the buffer length (faulty variant).
CStream_read_clamped(st, buf, bytes_read) ==
    [cb |-> <<StreamCall(st.reader, st.context, buf.ptr, buf.len)>>,
     res |-> IF bytes_read < 0 THEN IoErr ELSE IoOk(Min(bytes_read, buf.len)),
     stream |-> st]

\* impl Read for CStream: buf the caller's buffer, bytes_read the callback's
\* return value.
CStream_read(st, buf, bytes_read) ==
    [cb |-> <<StreamCall(st.reader, st.context, buf.ptr, buf.len)>>,
     res |-> IF bytes_read < 0 THEN IoErr ELSE IoOk(bytes_read),
     stream |-> st]

\* impl Write for CStream: write
CStream_write(st, buf, bytes_written) ==
    [cb |-> <<StreamCall(st.writer, st.context, buf.ptr, buf.len)>>,
     res |-> IF bytes_written < 0 THEN IoErr ELSE IoOk(bytes_written),
     stream |-> st]

\* impl Write for CStream: flush returns Ok(()) or the error.
CStream_flush(st, err) ==
    [cb |-> <<StreamCall(st.flusher, st.context, "-", 0)>>,
     res |-> IF err < 0 THEN IoErr ELSE IoOk(0),
     stream |-> st]

\* A 64-bit unsigned value is four 16-bit limbs (USize); a signed one is its
\* sign and the limbs of its magnitude.
I64(neg, mag) == [neg |-> neg, mag |-> mag]

\* The limbs of a number below 2^31.
Small(n) == USize(0, 0, n \div 65536, n % 65536)

\* x + 1 modulo 2^64
Inc(x) ==
    IF x[4] < 65535 THEN USize(x[1], x[2], x[3], x[4] + 1)
    ELSE IF x[3] < 65535 THEN USize(x[1], x[2], x[3] + 1, 0)
    ELSE IF x[2] < 65535 THEN USize(x[1], x[2] + 1, 0, 0)
    ELSE USize((x[1] + 1) % 65536, 0, 0, 0)

\* 2^64 - x modulo 2^64: the two's complement.
Neg64(x) == Inc(USize(65535 - x[1], 65535 - x[2], 65535 - x[3], 65535 - x[4]))

\* The 64-bit two's complement pattern of a signed value.
Bits64(p) == IF p.neg THEN Neg64(p.mag) ELSE p.mag

\* `pos as i64` from u64: values of 2^63 and above wrap to pos - 2^64.
u64_as_i64(pos) ==
    IF pos[1] < 32768 THEN I64(FALSE, pos) ELSE I64(TRUE, Neg64(pos))

\* A 32-bit signed number as a signed 64-bit value.
FromInt(v) == IF v >= 0 THEN I64(FALSE, Small(v)) ELSE I64(TRUE, Inc(Small(-(v + 1))))

\* The width of c_long: 64 bits on the LP64 targets (Linux, macOS).
c_long_bits == 64

\* `pos as c_long` from i64: the value itself when c_long has 64 bits, its
\* low 32 bits read as signed when it has 32.
as_c_long(pos) ==
    IF c_long_bits = 64 THEN u64_as_i64(Bits64(pos))
    ELSE FromInt(AsCInt(Bits64(pos)))

\* `new_pos as u64` from c_int: sign-extended, so a negative r becomes
\* 2^64 + r.
c_int_as_u64(r) ==
    IF r >= 0 THEN Small(r)
    ELSE LET m == (r + 2147483647) + 1
         IN USize(65535, 65535, 32768 + m \div 65536, m % 65536)

\* std::io::SeekFrom
SeekFrom(kind, pos) == [kind |-> kind, pos |-> pos]

\* One invocation of the seek callback.
SeekCall(fn, context, offset, mode) ==
    [fn |-> fn, context |-> context, offset |-> offset, mode |-> mode]

\* The match of seek with the codes of from-start and from-current exchanged
\* (faulty variant).
SeekArgs_exchanged(from) ==
    IF from.kind = "Current" THEN [pos |-> from.pos, mode |-> 0]
    ELSE IF from.kind = "Start" THEN [pos |-> u64_as_i64(from.pos), mode |-> 1]
    ELSE [pos |-> from.pos, mode |-> 2]

\* The match of seek: the signed offset and the mode code of a request.
SeekArgs(from) ==
    IF from.kind = "Current" THEN [pos |-> from.pos, mode |-> 1]
    ELSE IF from.kind = "Start" THEN [pos |-> u64_as_i64(from.pos), mode |-> 0]
    ELSE [pos |-> from.pos, mode |-> 2]

\* A seek that reports a negative return as an I/O error (faulty variant).
CStream_seek_checked(st, from, new_pos) ==
    LET a == SeekArgs(from)
    IN [cb |-> <<SeekCall(st.seeker, st.context, as_c_long(a.pos), a.mode)>>,
        res |-> IF new_pos < 0 THEN IoErr ELSE IoOk(c_int_as_u64(new_pos)),
        stream |-> st]

\* impl Seek for CStream: from the request, new_pos the callback's return
\* value (a c_int).  The result is always Ok.
CStream_seek(st, from, new_pos) ==
    LET a == SeekArgs(from)
    IN [cb |-> <<SeekCall(st.seeker, st.context, as_c_long(a.pos), a.mode)>>,
        res |-> IoOk(c_int_as_u64(new_pos)),
        stream |-> st]

----------------------------------------------------------------------------
(* The caller and the record of a call *)

NoResult == Ok(NoText, Zero)

\* What the caller passed, as far as the pointers go:
\*   h          the handle the call is about (NULLH if it takes none)
\*   nullStr    the first required string that is null ("" if none)
\*   firstNull  the first required pointer of any type, in signature order,
\*              that is null ("" if none)
\*   data_dir   the optional data_dir pointer ("-" if the call has none)
\*   signer     the signer handle given to c2pa_builder_sign (NULLH otherwise)
\*   malformed  "utf8" if a string argument is not valid UTF-8, "empty_certs"
\*              if the certificate chain has length zero, "" otherwise
Args(h, nullStr, firstNull, data_dir) ==
    [h |-> h, nullStr |-> nullStr, firstNull |-> firstNull, data_dir |-> data_dir,
     signer |-> NULLH, malformed |-> ""]

NotUtf8 == "bytes\\xFF"

\* The malformed-input mark of a call given its string arguments.
Malformed(strs) == IF NotUtf8 \in strs THEN "utf8" ELSE ""

WithMalformed(args, strs) == [args EXCEPT !.malformed = Malformed(strs)]

EmptyCertsMark(certs) == IF certs = NoCerts THEN "empty_certs" ELSE ""

NoArgs == Args(NULLH, "", "", "-")

\* The caller's buffer of a stream operation.
Buffer(ptr, len) == [ptr |-> ptr, len |-> len]

NoBuffer == Buffer("-", 0)

\* A signer or stream operation: the settings before it, the buffer, data
\* length, seek request or configuration it was given, the value the foreign callback returned, the callback
\* invocations it made, its result.
BridgeOp(op, pre, buf, ret, o) ==
    [op |-> op, pre |-> pre, buf |-> buf, ret |-> ret, cb |-> o.cb, res |-> o.res,
     ub |-> o.ub]

NoBridgeOp ==
    BridgeOp("init", NewSettings, NoBuffer, 0,
             [cb |-> <<>>, res |-> SigOk(0), ub |-> "none"])

Init ==
    /\ heap = [h \in Handles |-> "unalloc"]
    /\ held = {}
    /\ slot = LAST_ERROR
    /\ last = [thread |-> "none", op |-> "init", args |-> NoArgs, ret |-> RVoid,
               called |-> NotCalled, engErr |-> NoError, engLen |-> Zero,
               ub |-> "none"]
    /\ ub = "none"
    /\ hist = [t \in Threads |-> <<>>]
    /\ calls = 0
    /\ settings = NewSettings
    /\ cstream = NewCStream
    /\ bridge = NoBridgeOp
    /\ lock = NewLock
    /\ manifests = NewManifests
    /\ pc = [t \in SignerThreads |-> Idle("none", "none")]

\* Handles of kind k the caller may pass: those it holds, or a null pointer.
HeldOf(k) == {h \in held : h[1] = k} \cup {NULLH}

FirstTrue(flags) ==
    IF \E i \in 1..Len(flags) : flags[i]
    THEN CHOOSE i \in 1..Len(flags) : flags[i] /\ \A j \in 1..(i - 1) : ~flags[j]
    ELSE 0

\* Of the pointer parameters `names` (flags[i] telling whether the i-th
\* argument is null), the first one that is null.
FirstNullName(names, flags) ==
    IF FirstTrue(flags) = 0 THEN "" ELSE names[FirstTrue(flags)]

\* What a call that ran into undefined behaviour may do: abort the process,
\* return as if it had succeeded, or return a failure.  The build decides.
UndefinedOutcomes(t) ==
    {[ret |-> RCrash, slot |-> slot],
     [ret |-> RInt(0), slot |-> slot],
     [ret |-> RNull, slot |-> set_last(slot, t, Sdk("JumbfNotFound"))]}

\* The effect of one whole call on the state.  o is the outcome the entry
\* point's operator computed, res the engine's answer had it been asked, freed
\* the pointer given to a free operation (NULLH otherwise).
Commit(t, op, args, res, o, freed) ==
    /\ ub = "none"
    /\ calls < MaxCalls
    /\ calls' = calls + 1
    /\ ub' = o.ub
    /\ UNCHANGED <<hist, settings, cstream, bridge, manifests, lock, pc>>
    /\ IF o.ub = "none"
       THEN /\ heap' = o.heap
            /\ slot' = o.slot
            /\ held' = IF o.ret.k = "handle"
                       THEN held \cup {<<o.ret.s[1], o.ret.i>>}
                       ELSE held \ {freed}
            /\ last' = [thread |-> t, op |-> op, args |-> args, ret |-> o.ret,
                        called |-> o.called,
                        engErr |-> IF o.called.fn = "none" THEN NoError ELSE res.err,
                        engLen |-> IF o.called.fn = "none" THEN Zero ELSE res.len,
                        ub |-> "none"]
       ELSE /\ heap' = heap
            /\ held' = held
            /\ \E u \in UndefinedOutcomes(t) :
                 /\ slot' = u.slot
                 /\ last' = [thread |-> t, op |-> op, args |-> args, ret |-> u.ret,
                             called |-> NotCalled, engErr |-> NoError,
                             engLen |-> Zero, ub |-> o.ub]

----------------------------------------------------------------------------
(* One action per entry point *)

Version(t) ==
    Commit(t, "c2pa_version", NoArgs, NoResult, c2pa_version(slot, heap), NULLH)

ErrorQuery(t) ==
    Commit(t, "c2pa_error", NoArgs, NoResult, c2pa_error(slot, heap, t), NULLH)

ReadFile(t) ==
    \E path \in StrPtrs, data_dir \in StrPtrs, res \in ApiResults :
        LET n == FirstNullName(<<"path">>, <<path = NULL>>)
        IN Commit(t, "c2pa_read_file",
                  WithMalformed(Args(NULLH, n, n, data_dir), {path, data_dir}), res,
                  c2pa_read_file(slot, heap, t, path, data_dir, res), NULLH)

ReadIngredientFile(t) ==
    \E path \in StrPtrs, data_dir \in StrPtrs, res \in ApiResults :
        LET n == FirstNullName(<<"path", "data_dir">>, <<path = NULL, data_dir = NULL>>)
        IN Commit(t, "c2pa_read_ingredient_file",
                  WithMalformed(Args(NULLH, n, n, "-"), {path, data_dir}), res,
                  c2pa_read_ingredient_file(slot, heap, t, path, data_dir, res), NULLH)

\* Arguments of c2pa_sign_file: one of the required strings null, all of them
\* null, or all of them given with the optional ones null or not.
SignFileArgs ==
    {[req |-> [i \in 1..6 |-> IF i \in N THEN NULL ELSE "text"],
      ta_url |-> NULL, data_dir |-> NULL] :
        N \in {{i} : i \in 1..6} \cup {1..6}}
    \cup {[req |-> [i \in 1..6 |-> "text"], ta_url |-> u, data_dir |-> d] :
            u \in {NULL, "text"}, d \in {NULL, "text"}}

SignFile(t) ==
    \E a \in SignFileArgs, res \in ApiResults :
        LET n == FirstNullName(SignFileParams, [i \in 1..6 |-> a.req[i] = NULL])
        IN Commit(t, "c2pa_sign_file", Args(NULLH, n, n, a.data_dir), res,
                  c2pa_sign_file(slot, heap, t, a.req, a.ta_url, a.data_dir, res),
                  NULLH)

ReaderFromStream(t) ==
    /\ CanAlloc(heap, "reader")
    /\ \E format \in StrPtrs, stream \in HeldOf("stream"), res \in UnitResults :
        Commit(t, "c2pa_reader_from_stream",
               WithMalformed(
                   Args(NULLH, FirstNullName(<<"format">>, <<format = NULL>>),
                        FirstNullName(<<"format", "stream">>,
                                      <<format = NULL, stream = NULLH>>), "-"),
                   {format}),
               res, c2pa_reader_from_stream(slot, heap, t, format, stream, res), NULLH)

ReaderFree(t) ==
    \E p \in HeldOf("reader") :
        Commit(t, "c2pa_reader_free", Args(p, "", "", "-"), NoResult,
               c2pa_reader_free(slot, heap, p), p)

ReaderJson(t) ==
    \E p \in HeldOf("reader"), json \in Jsons :
        Commit(t, "c2pa_reader_json",
               Args(p, "", FirstNullName(<<"reader_ptr">>, <<p = NULLH>>), "-"),
               Ok(json, Zero), c2pa_reader_json(slot, heap, p, json), NULLH)

ReaderResourceToStream(t) ==
    \E p \in HeldOf("reader"), uri \in StrPtrs, stream \in HeldOf("stream"),
       res \in LenResults :
        Commit(t, "c2pa_reader_resource_to_stream",
               WithMalformed(
                   Args(p, FirstNullName(<<"uri">>, <<uri = NULL>>),
                        FirstNullName(<<"reader_ptr", "uri", "stream">>,
                                      <<p = NULLH, uri = NULL, stream = NULLH>>), "-"),
                   {uri}),
               res, c2pa_reader_resource_to_stream(slot, heap, t, p, uri, stream, res),
               NULLH)

BuilderFromJson(t) ==
    /\ CanAlloc(heap, "builder")
    /\ \E manifest_json \in StrPtrs, res \in UnitResults :
        LET n == FirstNullName(<<"manifest_json">>, <<manifest_json = NULL>>)
        IN Commit(t, "c2pa_builder_from_json",
                  WithMalformed(Args(NULLH, n, n, "-"), {manifest_json}), res,
                  c2pa_builder_from_json(slot, heap, t, manifest_json, res), NULLH)

BuilderFromArchive(t) ==
    /\ CanAlloc(heap, "builder")
    /\ \E stream \in HeldOf("stream"), res \in UnitResults :
        Commit(t, "c2pa_builder_from_archive",
               Args(NULLH, "", FirstNullName(<<"stream">>, <<stream = NULLH>>), "-"),
               res, c2pa_builder_from_archive(slot, heap, t, stream, res), NULLH)

BuilderFree(t) ==
    \E p \in HeldOf("builder") :
        Commit(t, "c2pa_builder_free", Args(p, "", "", "-"), NoResult,
               c2pa_builder_free(slot, heap, p), p)

BuilderAddResource(t) ==
    \E p \in HeldOf("builder"), uri \in StrPtrs, stream \in HeldOf("stream"),
       res \in UnitResults :
        Commit(t, "c2pa_builder_add_resource",
               WithMalformed(
                   Args(p, FirstNullName(<<"uri">>, <<uri = NULL>>),
                        FirstNullName(<<"builder_ptr", "uri", "stream">>,
                                      <<p = NULLH, uri = NULL, stream = NULLH>>), "-"),
                   {uri}),
               res, c2pa_builder_add_resource(slot, heap, t, p, uri, stream, res), NULLH)

BuilderAddIngredient(t) ==
    \E p \in HeldOf("builder"), ingredient_json \in StrPtrs, format \in StrPtrs,
       source \in HeldOf("stream"), res \in UnitResults :
        Commit(t, "c2pa_builder_add_ingredient",
               WithMalformed(
                   Args(p, FirstNullName(<<"ingredient_json", "format">>,
                                         <<ingredient_json = NULL, format = NULL>>),
                        FirstNullName(<<"builder_ptr", "ingredient_json", "format", "source">>,
                                      <<p = NULLH, ingredient_json = NULL, format = NULL,
                                        source = NULLH>>), "-"),
                   {ingredient_json, format}),
               res, c2pa_builder_add_ingredient(slot, heap, t, p, ingredient_json,
                                                format, source, res), NULLH)

BuilderToArchive(t) ==
    \E p \in HeldOf("builder"), stream \in HeldOf("stream"), res \in UnitResults :
        Commit(t, "c2pa_builder_to_archive",
               Args(p, "", FirstNullName(<<"builder_ptr", "stream">>,
                                         <<p = NULLH, stream = NULLH>>), "-"),
               res, c2pa_builder_to_archive(slot, heap, t, p, stream, res), NULLH)

\* source and dest are two exclusive borrows: the caller passes two streams.
BuilderSign(t) ==
    \E p \in HeldOf("builder"), format \in StrPtrs, source \in HeldOf("stream"),
       dest \in HeldOf("stream"), signer \in HeldOf("signer"), res \in LenResults :
        /\ source = NULLH \/ source # dest
        /\ Commit(t, "c2pa_builder_sign",
               [WithMalformed(
                   Args(p, FirstNullName(<<"format">>, <<format = NULL>>),
                        FirstNullName(<<"builder_ptr", "format", "source", "dest", "signer">>,
                                      <<p = NULLH, format = NULL, source = NULLH,
                                        dest = NULLH, signer = NULLH>>), "-"),
                   {format}) EXCEPT !.signer = signer],
               res, c2pa_builder_sign(slot, heap, t, p, format, source, dest,
                                      signer, res), NULLH)

SignerCreate(t) ==
    /\ CanAlloc(heap, "signer")
    /\ \E certs \in CertPtrs, tsa_url \in {NULL, "text"} :
        LET n == FirstNullName(<<"certs">>, <<certs = NULL>>)
        IN Commit(t, "c2pa_signer_create",
                  [Args(NULLH, n, n, "-") EXCEPT !.malformed = EmptyCertsMark(certs)],
                  NoResult,
                  c2pa_signer_create(slot, heap, t, certs, tsa_url), NULLH)

SignerFree(t) ==
    \E p \in HeldOf("signer") :
        Commit(t, "c2pa_signer_free", Args(p, "", "", "-"), NoResult,
               c2pa_signer_free(slot, heap, p), p)

CreateSigner(t) ==
    /\ CanAlloc(heap, "signer")
    /\ \E alg \in AlgPtrs, certs \in CertPtrs, tau \in {NULL, "text"} :
        LET n == FirstNullName(<<"config.alg", "config.certs">>,
                               <<alg = NULL, certs = NULL>>)
        IN Commit(t, "c2pa_create_signer",
                  [Args(NULLH, n, n, "-") EXCEPT !.malformed = EmptyCertsMark(certs)],
                  IF n # "" THEN NoResult
                  ELSE configure(to_lowercase(to_string_lossy(alg)),
                                 to_string_lossy(certs)),
                  c2pa_create_signer(slot, heap, t, alg, certs, tau), NULLH)

CreateStream(t) ==
    /\ CanAlloc(heap, "stream")
    /\ Commit(t, "c2pa_create_stream", NoArgs, NoResult,
              c2pa_create_stream(slot, heap), NULLH)

ReleaseStream(t) ==
    \E p \in HeldOf("stream") :
        Commit(t, "c2pa_release_stream", Args(p, "", "", "-"), NoResult,
               c2pa_release_stream(slot, heap, p), p)

Next ==
    \E t \in Callers :
        \/ Version(t)
        \/ ErrorQuery(t)
        \/ ReadFile(t)
        \/ ReadIngredientFile(t)
        \/ SignFile(t)
        \/ ReaderFromStream(t)
        \/ ReaderFree(t)
        \/ ReaderJson(t)
        \/ ReaderResourceToStream(t)
        \/ BuilderFromJson(t)
        \/ BuilderFromArchive(t)
        \/ BuilderFree(t)
        \/ BuilderAddResource(t)
        \/ BuilderAddIngredient(t)
        \/ BuilderToArchive(t)
        \/ BuilderSign(t)
        \/ SignerCreate(t)
        \/ SignerFree(t)
        \/ CreateSigner(t)
        \/ CreateStream(t)
        \/ ReleaseStream(t)

Spec == Init /\ [][Next]_vars

----------------------------------------------------------------------------
(* The error channel on two threads, with the history of calls kept *)

\* Errors handed to Error::set_last directly.
SetErrors == {NullParameter("uri"), Sdk("JumbfNotFound"), Sdk("BadParam")}

\* at: the position of the call in the interleaving of the two threads.
Event(op, err, ret) == [op |-> op, err |-> err, ret |-> ret, at |-> calls + 1]

\* One call on thread t: the slot becomes sl, and the call is appended to the
\* thread's history.
Record(t, sl, ev) ==
    /\ calls < MaxErrCalls
    /\ calls' = calls + 1
    /\ slot' = sl
    /\ hist' = [hist EXCEPT ![t] = Append(@, ev)]
    /\ UNCHANGED <<heap, held, last, ub, settings, cstream, bridge, manifests, lock, pc>>

SetLast(t) ==
    \E e \in SetErrors :
        Record(t, set_last(slot, t, e), Event("set_last", e, RVoid))

\* err of the event: the error take_last handed out (NoError for None).
TakeLast(t) ==
    LET r == take_last(slot, t)
    IN Record(t, r.slot, Event("take_last", r.err, RVoid))

LastMessage(t) ==
    LET r == last_message(slot, t)
    IN Record(t, r.slot, Event("last_message", NoError, r.ret))

ErrorOnThread(t) ==
    LET o == c2pa_error(slot, heap, t)
    IN Record(t, o.slot, Event("c2pa_error", NoError, o.ret))

VersionOnThread(t) ==
    LET o == c2pa_version(slot, heap)
    IN Record(t, o.slot, Event("c2pa_version", NoError, o.ret))

\* A fallible entry point; err of the event is the error the call failed
\* with, by its arguments and the engine's answer (NoError if it succeeded).
ReadFileOnThread(t) ==
    \E path \in {NULL, "text"}, res \in ApiResults :
        LET o == c2pa_read_file(slot, heap, t, path, NULL, res)
        IN Record(t, o.slot,
                  Event("c2pa_read_file",
                        IF path = NULL THEN NullParameter("path") ELSE res.err,
                        o.ret))

NextErr ==
    \E t \in Threads :
        \/ SetLast(t)
        \/ TakeLast(t)
        \/ LastMessage(t)
        \/ ErrorOnThread(t)
        \/ VersionOnThread(t)
        \/ ReadFileOnThread(t)

SpecErr == Init /\ [][NextErr]_vars

----------------------------------------------------------------------------
(* Properties of the handle lifecycle and of failures (Spec) *)

BuilderMutators ==
    {"c2pa_builder_add_resource", "c2pa_builder_add_ingredient",
     "c2pa_builder_to_archive"}

ReaderQueries == {"c2pa_reader_json", "c2pa_reader_resource_to_stream"}

\* Entry points returning c_int; all others return a pointer.
IntOps == BuilderMutators \cup {"c2pa_reader_resource_to_stream", "c2pa_builder_sign"}

Sentinel(op) == IF op \in IntOps THEN RInt(-1) ELSE RNull

\* The error a failing engine call leaves in the slot: an engine error is
\* wrapped as Sdk, an error of json_api is stored as it is.
ErrorOf(e) == IF e.kind = "c2pa" THEN Sdk(e.arg) ELSE e

Success(r) == r.k \in {"handle", "str"} \/ (r.k = "int" /\ r.i >= 0)

\* C1: after c2pa_builder_add_resource, c2pa_builder_add_ingredient or
\* c2pa_builder_to_archive has returned -1 (null string or engine failure), the
\* builder handle it was given still refers to a live builder.
C1_BuilderLiveAfterFailedMutator ==
    (last.op \in BuilderMutators /\ last.ub = "none" /\ last.ret = RInt(-1))
        => heap[last.args.h] = "live"

\* C2: c2pa_reader_json and c2pa_reader_resource_to_stream never consume the
\* reader: whatever path the call returned on (success, engine failure, null
\* uri), the reader handle it was given is live afterwards.
C2_ReaderLiveAfterQuery ==
    (last.op \in ReaderQueries /\ last.ub = "none")
        => heap[last.args.h] = "live"

\* C3: for a caller that frees each obtained handle once, never uses it after
\* that free and keeps using it after failed calls, no object is released
\* twice, no released object is accessed, and once every handle has been freed
\* no object remains allocated.
C3_NoDoubleFreeNoUseAfterFreeNoLeak ==
    /\ ub \notin {"double_free", "use_after_free"}
    /\ (held = {} => \A h \in Handles : heap[h] # "live")

\* C4: a call in which a required string is null or the engine call fails
\* returns the failure sentinel of its return type (null pointer, or -1 for
\* c_int), and on return the calling thread's slot holds the error of that
\* call: NullParameter naming the string, or the engine's error.  (Calls on
\* live objects: a call that ran into undefined behaviour has no defined
\* return.)
C4_FailureReturnsSentinelAndSetsSlot ==
    (last.ub = "none" /\ (last.args.nullStr # "" \/ last.engErr # NoError))
        => /\ last.ret = Sentinel(last.op)
           /\ slot[last.thread] =
                IF last.args.nullStr # ""
                THEN NullParameter(last.args.nullStr)
                ELSE ErrorOf(last.engErr)

\* A failed engine call of c2pa_builder_from_json: null returned, error in the
\* slot.
C4_Witness ==
    /\ last.op = "c2pa_builder_from_json"
    /\ last.engErr = C2paError("BadParam")
    /\ last.ret = RNull
    /\ slot[last.thread] = Sdk("BadParam")

\* C5: when a required pointer argument (string, handle or stream) is null,
\* the call returns the failure sentinel with NullParameter naming the first
\* null one, without having called the engine, reclaimed a handle or
\* dereferenced a stream.
C5_EveryPointerNullChecked ==
    last.args.firstNull # ""
        => /\ last.ub = "none"
           /\ last.ret = Sentinel(last.op)
           /\ slot[last.thread] = NullParameter(last.args.firstNull)
           /\ last.called = NotCalled
           /\ (last.args.h # NULLH => heap[last.args.h] = "live")

\* C7: a call that returns success (a handle, a string, or a count >= 0)
\* leaves the calling thread's slot as it was before the call, and c2pa_error
\* returns the text of the error that was in the slot before it.
C7_SuccessLeavesSlot ==
    [][(calls' = calls + 1 /\ last'.ub = "none" /\ Success(last'.ret))
          => /\ slot'[last'.thread] = slot[last'.thread]
             /\ (last'.op = "c2pa_error"
                   => last'.ret = RStr(Display(slot[last'.thread])))]_vars

\* A handle was returned while the error of an earlier failure is in the slot.
C7_Witness ==
    /\ last.op = "c2pa_builder_from_json"
    /\ last.ret.k = "handle"
    /\ slot[last.thread] = NullParameter("manifest_json")

----------------------------------------------------------------------------
(* Properties of the error channel (SpecErr) *)

\* A call that failed: it handed an error to set_last.
Failed(ev) == ev.op \in {"set_last", "c2pa_read_file"} /\ ev.err # NoError

\* A call that can write the slot: anything but the three queries.
Fallible(ev) == ev.op \in {"set_last", "take_last", "c2pa_read_file"}

Prefix(h, n) == SubSeq(h, 1, n)

\* The error of the most recent failed call of history h that no take_last
\* has followed; NoError if there is none.
RECURSIVE LastSinceTake(_)
LastSinceTake(h) ==
    IF h = <<>> THEN NoError
    ELSE LET ev == h[Len(h)]
         IN IF ev.op = "take_last" THEN NoError
            ELSE IF Failed(ev) THEN ev.err
            ELSE LastSinceTake(Prefix(h, Len(h) - 1))

\* No call of h strictly between positions i and j can write the slot.
Quiet(h, i, j) == \A k \in (i + 1)..(j - 1) : ~Fallible(h[k])

\* C6: on each thread the slot holds the error of the most recent failed call
\* on that thread since its last take_last, and nothing if there is none; what
\* take_last hands out is that one error, so an overwritten error is never
\* seen again.
C6_SlotHoldsMostRecentError ==
    \A t \in Threads :
        /\ slot[t] = LastSinceTake(hist[t])
        /\ \A i \in 1..Len(hist[t]) :
             hist[t][i].op = "take_last"
                => hist[t][i].err = LastSinceTake(Prefix(hist[t], i - 1))

\* Two calls failed on one thread with different errors; the slot holds the
\* second.
C6_Witness ==
    \E t \in Threads :
        /\ Len(hist[t]) = 2
        /\ hist[t][1].op = "set_last"
        /\ hist[t][2].op = "c2pa_read_file"
        /\ hist[t][2].err # NoError
        /\ hist[t][2].err # hist[t][1].err
        /\ slot[t] = hist[t][2].err

\* C8: on one thread, two c2pa_error calls (or two c2pa_version calls) with no
\* fallible call between them return the same text; last_message, c2pa_error
\* and c2pa_version leave the slot as it is; after take_last, with no failing
\* call since, last_message and a second take_last return nothing.
C8_QueriesIdempotentTakeEmpties ==
    /\ [](\A t \in Threads : \A i, j \in 1..Len(hist[t]) :
            (i < j /\ Quiet(hist[t], i, j))
               => /\ (hist[t][i].op = hist[t][j].op
                        /\ hist[t][i].op \in {"c2pa_error", "c2pa_version", "last_message"})
                       => hist[t][i].ret = hist[t][j].ret
                  /\ (hist[t][i].op = "take_last" /\ hist[t][j].op = "last_message")
                       => hist[t][j].ret = RNull
                  /\ (hist[t][i].op = "take_last" /\ hist[t][j].op = "take_last")
                       => hist[t][j].err = NoError)
    /\ [][\A t \in Threads :
            (hist'[t] # hist[t]
               /\ hist'[t][Len(hist'[t])].op \in {"c2pa_error", "c2pa_version", "last_message"})
              => slot' = slot]_vars

\* An error was set, and c2pa_error returned its text twice; then take_last
\* emptied the slot.
C8_Witness ==
    \E t \in Threads :
        /\ Len(hist[t]) = 4
        /\ hist[t][1].op = "set_last"
        /\ hist[t][2].op = "c2pa_error"
        /\ hist[t][3].op = "c2pa_error"
        /\ hist[t][2].ret = RStr(Display(hist[t][1].err))
        /\ hist[t][3].ret = hist[t][2].ret
        /\ hist[t][4].op = "take_last"
        /\ slot[t] = NoError

\* What a query of thread t at position i of its history returns, by the
\* earlier calls of t alone.
OwnView(t, i) == LastSinceTake(Prefix(hist[t], i - 1))

\* C9: a call on one thread never changes the slot of the other thread, and
\* what last_message, take_last and c2pa_error return on a thread is
\* determined by that thread's own earlier calls, whatever the other thread
\* did in between.
C9_SlotIsPerThread ==
    /\ [](\A t \in Threads : \A i \in 1..Len(hist[t]) :
            /\ hist[t][i].op = "take_last" => hist[t][i].err = OwnView(t, i)
            /\ hist[t][i].op = "last_message"
                 => hist[t][i].ret = IF OwnView(t, i) = NoError THEN RNull
                                     ELSE RStr(Display(OwnView(t, i)))
            /\ hist[t][i].op = "c2pa_error"
                 => hist[t][i].ret = to_c_string(Display(OwnView(t, i))))
    /\ [][\A t \in Threads : hist'[t] = hist[t] => slot'[t] = slot[t]]_vars

\* Thread t1 failed first; then c2pa_error on t2 returned the empty text; then
\* take_last on t1 still handed out t1's error.
C9_Witness ==
    /\ Len(hist["t1"]) = 2
    /\ Len(hist["t2"]) = 1
    /\ hist["t1"][1].op = "set_last" /\ hist["t1"][1].at = 1
    /\ hist["t2"][1].op = "c2pa_error" /\ hist["t2"][1].at = 2
    /\ hist["t2"][1].ret = RStr(NoText)
    /\ hist["t1"][2].op = "take_last" /\ hist["t1"][2].at = 3
    /\ hist["t1"][2].err = hist["t1"][1].err

----------------------------------------------------------------------------
(* Malformed input, byte counts, constructors, signing (Spec) *)

\* C11: an entry point given a string argument that is not valid UTF-8, and
\* c2pa_signer_create or c2pa_create_signer given a certificate chain of length
\* zero, returns its failure sentinel and leaves a non-empty message in the
\* calling thread's slot.
C11_MalformedInputFails ==
    (last.args.malformed # "" /\ last.ub = "none")
        => /\ last.ret = Sentinel(last.op)
           /\ slot[last.thread] # NoError
           /\ Display(slot[last.thread]) # NoText

\* Entry points returning a byte count.
LenOps == {"c2pa_builder_sign", "c2pa_reader_resource_to_stream"}

\* The c_int i is the byte count n (a usize in limbs).
SameCount(i, n) ==
    /\ n[1] = 0 /\ n[2] = 0 /\ n[3] < 32768
    /\ i = n[3] * 65536 + n[4]

\* C12: c2pa_builder_sign and c2pa_reader_resource_to_stream return a value
\* >= 0 equal to the engine's byte count whenever the engine call succeeded,
\* whatever the count, and return -1 only when the call failed.
C12_ByteCountReturnedAsIs ==
    (last.op \in LenOps /\ last.ub = "none")
        => /\ (last.called # NotCalled /\ last.engErr = NoError)
                => /\ last.ret.k = "int"
                   /\ last.ret.i >= 0
                   /\ SameCount(last.ret.i, last.engLen)
           /\ last.ret = RInt(-1)
                => (last.args.nullStr # "" \/ last.engErr # NoError)

Constructors ==
    {"c2pa_reader_from_stream", "c2pa_builder_from_json", "c2pa_builder_from_archive",
     "c2pa_signer_create", "c2pa_create_signer", "c2pa_create_stream"}

\* C15: a constructor called on live objects either returns a handle to an
\* object that was not allocated before and is live now, every other object
\* untouched, or returns null with the error of the call in the slot and the
\* heap as it was; c2pa_create_signer returns a handle only when configure
\* succeeded.
C15_ConstructorAllOrNothing ==
    [][(calls' = calls + 1 /\ last'.op \in Constructors /\ last'.ub = "none")
          => \/ /\ last'.ret.k = "handle"
                /\ last'.engErr = NoError
                /\ LET h == <<last'.ret.s[1], last'.ret.i>>
                   IN /\ heap[h] = "unalloc"
                      /\ heap' = [heap EXCEPT ![h] = "live"]
             \/ /\ last'.ret = RNull
                /\ (last'.args.nullStr # "" \/ last'.engErr # NoError)
                /\ slot'[last'.thread] # NoError
                /\ slot'[last'.thread] =
                     IF last'.args.nullStr # ""
                     THEN NullParameter(last'.args.nullStr)
                     ELSE ErrorOf(last'.engErr)
                /\ heap' = heap]_vars

\* c2pa_create_signer failed in configure on an unparsable chain: null
\* returned, the error in the slot, no signer allocated.
C15_Witness ==
    /\ last.op = "c2pa_create_signer"
    /\ last.engErr = C2paError("OtherError")
    /\ last.ret = RNull
    /\ slot[last.thread] = Sdk("OtherError")
    /\ \A h \in HandlesOf("signer") : heap[h] = "unalloc"

\* C17: c2pa_builder_sign leaves the builder and the signer it was given live
\* on every return path: null format, engine failure, success.
C17_SignKeepsBuilderAndSigner ==
    (last.op = "c2pa_builder_sign" /\ last.ub = "none")
        => /\ heap[last.args.h] = "live"
           /\ (last.args.signer # NULLH => heap[last.args.signer] = "live")

----------------------------------------------------------------------------
(* The signer bridge and the stream bridge as the engine drives them *)

SignerConfigs ==
    [alg : {"es256", "md5"}, certs : {PemText, PemBroken, NoCerts},
     time_authority_url : {"None", "http://tsa"}]

\* Lengths of the data the engine asks to be signed.
DataLens == {0, 3}

\* Values the foreign signing callback returns.
CallbackReturns == {-1, 0, 6, 7, 50000, 100001}

\* Buffers the engine reads into or writes from.
Buffers == {Buffer("buf1", 0), Buffer("buf2", 4)}

\* Values a foreign stream callback returns.
StreamReturns == {-1, 0, 4, 9}

\* One operation on the signer or stream under study.
BridgeStep(st, rec) ==
    /\ calls < MaxBridgeCalls
    /\ calls' = calls + 1
    /\ settings' = st
    /\ bridge' = rec
    /\ UNCHANGED <<heap, held, slot, last, ub, hist, manifests, lock, pc>>

\* A Result<()> in the shape of the results of sign.
Unit(r) == IF r.ok THEN SigOk(0) ELSE SigErr(r.err.arg, "none")

\* C2paSigner::new
SignerNew ==
    /\ BridgeStep(NewSettings,
                  BridgeOp("C2paSigner::new", settings, NoBuffer, 0,
                           [cb |-> <<>>, res |-> SigOk(0), ub |-> "none"]))
    /\ UNCHANGED cstream

\* C2paSigner::configure
Configure ==
    \E config \in SignerConfigs :
        /\ BridgeStep(configure_settings(settings, config),
                      BridgeOp("C2paSigner::configure", settings, config, 0,
                               [cb |-> <<>>, res |-> Unit(configure(config.alg, config.certs)),
                                ub |-> "none"]))
        /\ UNCHANGED cstream

\* The engine signs with a signer made by c2pa_create_signer.
SignConfigured ==
    \E len \in DataLens, result \in CallbackReturns :
        /\ BridgeStep(settings,
                      BridgeOp("C2paSigner::sign", settings, Buffer("data", len), result,
                               C2paSigner_sign(len, result)))
        /\ UNCHANGED cstream

\* What a closure call that ran into undefined behaviour may hand back: the
\* over-long vector, or nothing because the process aborted.
ClosureOutcomes(o) ==
    IF o.ub = "none" THEN {o}
    ELSE {o, [o EXCEPT !.res = SigErr("crash", "none")]}

\* The engine signs with a signer made by c2pa_signer_create.
SignClosure ==
    \E len \in DataLens, signed_size \in CallbackReturns :
        \E o \in ClosureOutcomes(c_callback(len, signed_size)) :
            /\ BridgeStep(settings,
                          BridgeOp("c_callback", settings, Buffer("data", len),
                                   signed_size, o))
            /\ UNCHANGED cstream

StreamStep(op, buf, ret, o) ==
    /\ BridgeStep(settings,
                  BridgeOp(op, settings, buf, ret,
                           [cb |-> o.cb, res |-> o.res, ub |-> "none"]))
    /\ cstream' = o.stream

StreamRead ==
    \E buf \in Buffers, r \in StreamReturns :
        StreamStep("CStream::read", buf, r, CStream_read(cstream, buf, r))

StreamWrite ==
    \E buf \in Buffers, r \in StreamReturns :
        StreamStep("CStream::write", buf, r, CStream_write(cstream, buf, r))

StreamFlush ==
    \E r \in StreamReturns :
        StreamStep("CStream::flush", NoBuffer, r, CStream_flush(cstream, r))

\* Requests the engine makes of seek: from the start with an unsigned offset,
\* from the current position or the end with a signed one.
SeekFroms ==
    {SeekFrom("Start", u) : u \in {Zero, Small(5), USize(32767, 65535, 65535, 65535),
                                   USize(32768, 0, 0, 0), USize(65535, 65535, 65535, 65535)}}
    \cup {SeekFrom(k, FromInt(i)) : k \in {"Current", "End"}, i \in {-3, 0, 10}}

\* Values the foreign seek callback returns (a c_int).
SeekReturns == {-2147483647, -1, 0, 7, 2147483647}

StreamSeek ==
    \E from \in SeekFroms, r \in SeekReturns :
        StreamStep("CStream::seek", from, r, CStream_seek(cstream, from, r))

NextBridge ==
    \/ SignerNew
    \/ Configure
    \/ SignConfigured
    \/ SignClosure
    \/ StreamRead
    \/ StreamWrite
    \/ StreamFlush
    \/ StreamSeek

SpecBridge == Init /\ [][NextBridge]_vars

----------------------------------------------------------------------------
(* Properties of the signer bridge and of the stream bridge (SpecBridge) *)

SignOps == {"C2paSigner::sign", "c_callback"}

\* C13: in both signer shapes a negative return of the foreign callback makes
\* the sign operation the engine calls fail with the one error kind
\* CoseSignature, and no signature is returned.
C13_NegativeReturnIsCoseSignature ==
    (bridge.op \in SignOps /\ bridge.ret < 0)
        => /\ ~bridge.res.ok
           /\ bridge.res.err = "CoseSignature"

\* C14: on a configured signer, every signature C2paSigner::sign returns is no
\* longer than reserve_size().
C14_SignatureWithinReserveSize ==
    (bridge.op = "C2paSigner::sign" /\ settings.certs # <<>> /\ bridge.res.ok)
        => bridge.res.len <= reserve_size(settings)

\* C18: a configure that returned an error left every field of the settings
\* as it was before the call.
C18_FailedConfigureChangesNothing ==
    (bridge.op = "C2paSigner::configure" /\ ~bridge.res.ok)
        => settings = bridge.pre

\* C19: in both signer shapes, whatever value >= 0 the callback returns, the
\* signature handed to the engine is no longer than the capacity the callback
\* was offered.
C19_SignatureWithinOfferedCapacity ==
    (bridge.op \in SignOps /\ bridge.ret >= 0 /\ bridge.res.ok)
        => bridge.res.len <= bridge.cb[1].cap

StreamOps == {"CStream::read", "CStream::write", "CStream::flush"}

\* The callback a stream operation goes to.
CallbackOf(op) ==
    IF op = "CStream::read" THEN NewCStream.reader
    ELSE IF op = "CStream::write" THEN NewCStream.writer
    ELSE NewCStream.flusher

\* C20: a read, write or flush invokes its callback exactly once, with the
\* stream's context and (read, write) the caller's buffer and its full length;
\* the stream object is the same afterwards; a negative return is an I/O error,
\* a return n >= 0 is success with count n, also when n exceeds the buffer
\* length.
C20_StreamCallsPassThrough ==
    bridge.op \in StreamOps
        => /\ Len(bridge.cb) = 1
           /\ bridge.cb[1].fn = CallbackOf(bridge.op)
           /\ bridge.cb[1].context = NewCStream.context
           /\ (bridge.op # "CStream::flush"
                 => /\ bridge.cb[1].ptr = bridge.buf.ptr
                    /\ bridge.cb[1].len = bridge.buf.len)
           /\ cstream = NewCStream
           /\ IF bridge.ret < 0
              THEN ~bridge.res.ok
              ELSE /\ bridge.res.ok
                   /\ (bridge.op # "CStream::flush" => bridge.res.n = bridge.ret)

\* A read into a 4-byte buffer whose callback returned 9 succeeded with
\* count 9.
C20_Witness ==
    /\ bridge.op = "CStream::read"
    /\ bridge.buf.len = 4
    /\ bridge.ret = 9
    /\ bridge.res = IoOk(9)

\* The magnitude of a negative 32-bit number.
Mag(r) == Inc(Small(-(r + 1)))

ModeCode(kind) == IF kind = "Start" THEN 0 ELSE IF kind = "Current" THEN 1 ELSE 2

----------------------------------------------------------------------------
(* Properties of the string-returning entry points (Spec) *)

\* Entry points returning *mut c_char.
StringOps ==
    {"c2pa_error", "c2pa_version", "c2pa_reader_json", "c2pa_read_file",
     "c2pa_read_ingredient_file", "c2pa_sign_file"}

\* C22: when a string-returning entry point returns null, the call wrote the
\* calling thread's slot: it holds NullParameter naming the null string the
\* call was given, or the error of the engine call it made.
C22_NullStringReturnIsExplained ==
    (last.op \in StringOps /\ last.ub = "none" /\ last.ret = RNull)
        => \/ /\ last.args.nullStr # ""
              /\ slot[last.thread] = NullParameter(last.args.nullStr)
           \/ /\ last.engErr # NoError
              /\ slot[last.thread] = ErrorOf(last.engErr)

----------------------------------------------------------------------------
(* Properties of the stream handles (Spec) *)

\* Entry points that are given a stream to use.
StreamBorrowers ==
    {"c2pa_reader_from_stream", "c2pa_builder_from_archive", "c2pa_builder_add_resource",
     "c2pa_builder_add_ingredient", "c2pa_builder_to_archive", "c2pa_builder_sign",
     "c2pa_reader_resource_to_stream"}

\* C24: the context token of a stream changes hands in two calls only:
\* c2pa_create_stream, which returns the stream and makes the bridge its
\* owner, and c2pa_release_stream of that stream, which releases it; once
\* released it stays released.  No other call, whatever path it returns on,
\* releases a stream or its token.
C24_ContextReleasedOnlyByReleaseStream ==
    [][\A s \in HandlesOf("stream") :
          ContextOf(heap', s) # ContextOf(heap, s)
             => \/ /\ last'.op = "c2pa_create_stream"
                   /\ last'.ret = RHandle(s)
                   /\ ContextOf(heap, s) = "foreign"
                   /\ ContextOf(heap', s) = "owned"
                \/ /\ last'.op = "c2pa_release_stream"
                   /\ last'.args.h = s
                   /\ ContextOf(heap, s) = "owned"
                   /\ ContextOf(heap', s) = "released"]_vars

\* A stream that a failed c2pa_reader_from_stream had been given is still
\* owned with its token.
C24_Witness ==
    /\ last.op = "c2pa_reader_from_stream"
    /\ last.engErr # NoError
    /\ \E s \in held : s[1] = "stream" /\ ContextOf(heap, s) = "owned"

----------------------------------------------------------------------------
(* signer.rs: configure and the accessors of one C2paSigner on several
   threads (SpecLock).  Each step is one lock operation, one field
   assignment or one return. *)

\* Configurations given to configure: one that is accepted, one whose
\* algorithm is rejected, one whose chain does not parse.
LockConfigs ==
    {c \in SignerConfigs :
        \/ c.alg = "es256" /\ c.certs = PemText /\ c.time_authority_url = "http://tsa"
        \/ c.alg = "md5" /\ c.certs = PemText /\ c.time_authority_url = "None"
        \/ c.alg = "es256" /\ c.certs = PemBroken /\ c.time_authority_url = "None"}

LockStep(t, p, lk, st) ==
    /\ pc' = [pc EXCEPT ![t] = p]
    /\ lock' = lk
    /\ settings' = st
    /\ UNCHANGED <<heap, held, slot, last, ub, hist, cstream, bridge, manifests>>

\* A thread calls configure.
ConfigureCall(t) ==
    /\ pc[t].at = "idle"
    /\ calls < MaxLockCalls
    /\ calls' = calls + 1
    /\ \E config \in LockConfigs :
          LockStep(t, At("configure", "write", config, "-", FALSE, "none"), lock, settings)

\* RwLock::write(&self.settings): on a poisoned lock the result is Err and
\* configure returns BadParam("RwLock"), the guard inside the error dropped.
ConfigureWrite(t) ==
    /\ pc[t].op = "configure" /\ pc[t].at = "write"
    /\ CanWrite(lock)
    /\ UNCHANGED calls
    /\ IF lock.poisoned
       THEN LockStep(t, [Idle("configure", "Err(BadParam(RwLock))") EXCEPT !.poisoned = TRUE],
                     lock, settings)
       ELSE LockStep(t, [pc[t] EXCEPT !.at = "alg"], [lock EXCEPT !.writer = t], settings)

\* settings.alg = SigningAlg::from_str(&config.alg)?
ConfigureAlg(t) ==
    /\ pc[t].op = "configure" /\ pc[t].at = "alg"
    /\ UNCHANGED calls
    /\ IF pc[t].arg.alg \notin AlgNames
       THEN LockStep(t, Idle("configure", "Err(BadParam)"),
                     [lock EXCEPT !.writer = "none"], settings)
       ELSE LockStep(t, [pc[t] EXCEPT !.at = "certs"], lock,
                     [settings EXCEPT !.alg = pc[t].arg.alg])

\* let mut pems = pem::parse_many(&config.certs)?; settings.certs = ...
ConfigureCerts(t) ==
    /\ pc[t].op = "configure" /\ pc[t].at = "certs"
    /\ UNCHANGED calls
    /\ IF ~PemParses(pc[t].arg.certs)
       THEN LockStep(t, Idle("configure", "Err(OtherError)"),
                     [lock EXCEPT !.writer = "none"], settings)
       ELSE LockStep(t, [pc[t] EXCEPT !.at = "reserve_size"], lock,
                     [settings EXCEPT !.certs = PemContents(pc[t].arg.certs)])

\* settings.reserve_size = config.certs.len() as u64 + 20000
ConfigureReserveSize(t) ==
    /\ pc[t].op = "configure" /\ pc[t].at = "reserve_size"
    /\ UNCHANGED calls
    /\ LockStep(t, [pc[t] EXCEPT !.at = "time_authority_url"], lock,
                [settings EXCEPT !.reserve_size = Len(pc[t].arg.certs) + ReserveMargin])

\* settings.time_authority_url = config.time_authority_url.clone()
ConfigureTimeAuthorityUrl(t) ==
    /\ pc[t].op = "configure" /\ pc[t].at = "time_authority_url"
    /\ UNCHANGED calls
    /\ LockStep(t, [pc[t] EXCEPT !.at = "ocsp_val"], lock,
                [settings EXCEPT !.time_authority_url = pc[t].arg.time_authority_url])

\* settings.ocsp_val = None
ConfigureOcspVal(t) ==
    /\ pc[t].op = "configure" /\ pc[t].at = "ocsp_val"
    /\ UNCHANGED calls
    /\ LockStep(t, [pc[t] EXCEPT !.at = "return"], lock,
                [settings EXCEPT !.ocsp_val = "None"])

\* The guard goes out of scope at the end of the if-let block; Ok(()).
ConfigureReturn(t) ==
    /\ pc[t].op = "configure" /\ pc[t].at = "return"
    /\ UNCHANGED calls
    /\ LockStep(t, Idle("configure", "Ok(())"), [lock EXCEPT !.writer = "none"], settings)

\* A panic raised while the write guard is held (out of the PEM parser or of
\* the collection of its blocks) unwinds the thread: the guard is dropped and
\* the lock is poisoned.
ConfigurePanic(t) ==
    /\ pc[t].op = "configure" /\ pc[t].at = "certs"
    /\ UNCHANGED calls
    /\ LockStep(t, Idle("configure", "panic"),
                [lock EXCEPT !.writer = "none", !.poisoned = TRUE], settings)

\* A thread calls one of the accessors.
AccessorCall(t) ==
    /\ pc[t].at = "idle"
    /\ calls < MaxLockCalls
    /\ calls' = calls + 1
    /\ \E f \in Accessors :
          LockStep(t, At(f, "read", f, "-", FALSE, "none"), lock, settings)

\* RwLock::read(&self.settings).unwrap(): on a poisoned lock unwrap panics.
AccessorRead(t) ==
    /\ pc[t].op \in Accessors /\ pc[t].at = "read"
    /\ CanRead(lock)
    /\ UNCHANGED calls
    /\ IF lock.poisoned
       THEN LockStep(t, [Idle(pc[t].op, "panic") EXCEPT !.poisoned = TRUE], lock, settings)
       ELSE LockStep(t, [pc[t] EXCEPT !.at = "field"],
                     [lock EXCEPT !.readers = @ \cup {t}], settings)

\* .alg, .certs.clone(), .reserve_size, ... : the field is read through the
\* guard.
AccessorField(t) ==
    /\ pc[t].op \in Accessors /\ pc[t].at = "field"
    /\ UNCHANGED calls
    /\ LockStep(t, [pc[t] EXCEPT !.at = "return", !.val = settings[pc[t].op],
                                !.mid = \E u \in SignerThreads : pc[u].at \in MidUpdate],
                lock, settings)

\* The guard is dropped at the end of the statement; the value is returned.
AccessorReturn(t) ==
    /\ pc[t].op \in Accessors /\ pc[t].at = "return"
    /\ UNCHANGED calls
    /\ LockStep(t, [pc[t] EXCEPT !.at = "idle", !.ret = "value"],
                [lock EXCEPT !.readers = @ \ {t}], settings)

NextLock ==
    \E t \in SignerThreads :
        \/ ConfigureCall(t)
        \/ ConfigureWrite(t)
        \/ ConfigureAlg(t)
        \/ ConfigureCerts(t)
        \/ ConfigureReserveSize(t)
        \/ ConfigureTimeAuthorityUrl(t)
        \/ ConfigureOcspVal(t)
        \/ ConfigureReturn(t)
        \/ ConfigurePanic(t)
        \/ AccessorCall(t)
        \/ AccessorRead(t)
        \/ AccessorField(t)
        \/ AccessorReturn(t)

SpecLock == Init /\ [][NextLock]_vars

----------------------------------------------------------------------------
(* Properties of the signer's lock (SpecLock) *)

\* The threads holding a guard, by their position.
HoldsWrite(t) == pc[t].op = "configure" /\ pc[t].at \in Writing
HoldsRead(t) == pc[t].op \in Accessors /\ pc[t].at \in {"field", "return"}

\* Some thread has a step to take.
CanStep ==
    \E t \in SignerThreads :
        \/ HoldsWrite(t)
        \/ HoldsRead(t)
        \/ pc[t].at = "write" /\ CanWrite(lock)
        \/ pc[t].at = "read" /\ CanRead(lock)

\* C25: every field assignment of configure is made with the write guard
\* held and by no one else; an accessor reads with a read guard held and
\* never while a configure is between its first and last assignment; read
\* guards are held together but never with the write guard; a thread that has
\* returned holds no guard; and while some thread waits for the lock, some
\* thread can take a step.
C25_LockProtectsSettings ==
    /\ \A t \in SignerThreads : HoldsWrite(t) <=> lock.writer = t
    /\ \A t \in SignerThreads : HoldsRead(t) <=> t \in lock.readers
    /\ lock.writer # "none" => lock.readers = {}
    /\ \A t \in SignerThreads :
          (pc[t].op \in Accessors /\ pc[t].at \in {"return", "idle"}) => ~pc[t].mid
    /\ \A t \in SignerThreads :
          pc[t].at = "idle" => (lock.writer # t /\ t \notin lock.readers)
    /\ (\E t \in SignerThreads : pc[t].at # "idle") => CanStep

\* Two accessors hold read guards together while a configure waits for the
\* lock.
C25_Witness ==
    /\ Cardinality(lock.readers) = 2
    /\ \E t \in SignerThreads : pc[t].op = "configure" /\ pc[t].at = "write"

\* C26: a call of configure or of an accessor that found the lock poisoned
\* ended in a panic; it returned no error value and no result.
C26_PoisonedLockPanics ==
    \A t \in SignerThreads :
        (pc[t].at = "idle" /\ pc[t].poisoned) => pc[t].ret = "panic"

----------------------------------------------------------------------------
(* Further properties of the signer bridge (SpecBridge) *)

\* C27: the closure of c2pa_signer_create invokes the callback exactly once
\* with the data and a capacity of twice the data's length (0 for no data);
\* C2paSigner::sign invokes its callback exactly once with the data and a
\* capacity of 100000 whatever the data's length.
C27_CallbackCapacity ==
    /\ bridge.op = "c_callback"
          => /\ Len(bridge.cb) = 1
             /\ bridge.cb[1].len = bridge.buf.len
             /\ bridge.cb[1].cap = 2 * bridge.buf.len
    /\ bridge.op = "C2paSigner::sign"
          => /\ Len(bridge.cb) = 1
             /\ bridge.cb[1].len = bridge.buf.len
             /\ bridge.cb[1].cap = 100000

\* The closure signed no data: the callback was offered capacity 0 and
\* returned 0.
C27_Witness ==
    /\ bridge.op = "c_callback"
    /\ bridge.buf.len = 0
    /\ bridge.cb = <<SignCall(0, 0)>>
    /\ bridge.ret = 0
    /\ bridge.res = SigOk(0)

\* C28: after a configure that returned Ok, reserve_size() is the byte
\* length of the configuration's certificate text plus 20000, the
\* timestamp-authority URL is the configuration's and the OCSP value is
\* absent, whatever the settings were before; a signer that was never
\* configured has reserve_size 1024, algorithm Ps256 and no certificates.
C28_ConfigureResults ==
    /\ (bridge.op = "C2paSigner::configure" /\ bridge.res.ok)
          => /\ reserve_size(settings) = Len(bridge.buf.certs) + 20000
             /\ settings.time_authority_url = bridge.buf.time_authority_url
             /\ settings.ocsp_val = "None"
    /\ bridge.op \in {"init", "C2paSigner::new"}
          => /\ reserve_size(settings) = 1024
             /\ settings.alg = "ps256"
             /\ settings.certs = <<>>

\* A configure without a timestamp authority succeeded on a signer that an
\* earlier configure had given one.
C28_Witness ==
    /\ bridge.op = "C2paSigner::configure"
    /\ bridge.res.ok
    /\ bridge.pre.time_authority_url = "http://tsa"
    /\ bridge.pre.reserve_size = 20056
    /\ bridge.buf.certs = NoCerts
    /\ settings.time_authority_url = "None"
    /\ settings.reserve_size = 20000

----------------------------------------------------------------------------
(* c_api.rs: successful c2pa_builder_sign calls and c2pa_manifest_free
   (SpecManifest) *)

\* Manifests the engine returns; one without bytes has no zero byte.
ManifestDatas ==
    {d \in [len : Lens, spare : {0, 8}, nul : {"none", "inside", "last"}] :
        d.len = Zero => d.nul = "none"}

ManifestStep(m) ==
    /\ calls < MaxManifestCalls
    /\ calls' = calls + 1
    /\ manifests' = m
    /\ UNCHANGED <<heap, held, slot, last, ub, hist, settings, cstream, bridge, lock, pc>>

\* c2pa_builder_sign whose engine call succeeded.
BuilderSignOk ==
    \E m \in ManifestIds, c2pa_data \in ManifestDatas, c2pa_data_ptr \in {"null", "out"} :
        /\ manifests.buf[m].state = "unalloc"
        /\ \A k \in ManifestIds : k < m => manifests.buf[k].state # "unalloc"
        /\ LET o == c2pa_builder_sign_ok(manifests.buf, m, c2pa_data, c2pa_data_ptr)
           IN ManifestStep([buf |-> o.buf,
                            op |-> ManifestOp("c2pa_builder_sign", m, c2pa_data_ptr,
                                              c2pa_data, o.ret, o.out, "none")])

\* What a c2pa_manifest_free that ran into undefined behaviour may do: release
\* the buffer all the same, or abort with the buffer as it was.
ManifestFreeOutcomes(bufs, p, o) ==
    IF o.ub = "none" THEN {o.buf}
    ELSE {[bufs EXCEPT ![p].state = "freed"], bufs}

\* The caller passes null or a manifest it was handed and has not freed.
ManifestFree ==
    \E p \in {0} \cup {m \in ManifestIds : manifests.buf[m].state = "caller"} :
        LET o == c2pa_manifest_free(manifests.buf, p)
        IN \E b \in ManifestFreeOutcomes(manifests.buf, p, o) :
              ManifestStep([buf |-> b,
                            op |-> ManifestOp("c2pa_manifest_free", p, "null",
                                              IF p = 0 THEN NoData ELSE manifests.buf[p].data,
                                              0, 0, o.ub)])

NextManifest ==
    \/ BuilderSignOk
    \/ ManifestFree

SpecManifest == Init /\ [][NextManifest]_vars

\* C29: after a successful c2pa_builder_sign the count returned is the
\* manifest's length, and the manifest is in the caller's hands, its address
\* stored through c2pa_data_ptr, when that pointer was given, released
\* otherwise; c2pa_manifest_free of a manifest in the caller's hands releases
\* it, within defined behaviour.
C29_ManifestHasOneOwner ==
    LET o == manifests.op
    IN /\ o.name = "c2pa_builder_sign"
            => /\ SameCount(o.ret, o.data.len)
               /\ (o.ptr = "out" => (manifests.buf[o.m].state = "caller" /\ o.out = o.m))
               /\ (o.ptr = "null" => manifests.buf[o.m].state = "freed")
       /\ (o.name = "c2pa_manifest_free" /\ o.m # 0)
            => /\ o.ub = "none"
               /\ manifests.buf[o.m].state = "freed"

====
